---- MODULE Spec2Model ----
(***************************************************************************)
(* The constraint module of the simulator (elastica/modules/constraints.py)*)
(* as a state machine: the staging list of _Constraint builders, the       *)
(* operator list built by _finalize_constraints, and the two dispatch      *)
(* loops.  Python lists are 0-based, TLA+ sequences 1-based: element i of  *)
(* a Python list is element i+1 of the sequence that models it.           *)
(*                                                                         *)
(* The collection the module is mixed into is not part of the module: its  *)
(* registry (_systems, _get_sys_idx_if_valid, blocks) and its one-shot     *)
(* finalize() follow the design document, as do the behaviour classes      *)
(* (which of them derive from ConstraintBase, what their constructors      *)
(* take).  What the operators do to a system when they are invoked is      *)
(* outside the module; the model records that and in which order they are  *)
(* invoked.                                                                *)
(***************************************************************************)
EXTENDS Integers, Sequences, FiniteSets

\* ---------------------------------------------------------------- bounds
\* how many constrain(...) calls the user makes
MaxBuilders == 2
\* how many writes to the live state arrays are made from outside the module
MaxWrites == 1
\* how many using(...) calls the user makes
MaxUsing == 2

\* ------------------------------------------------------------ the systems
\* The registry: the objects appended to the collection, in order.  The
\* object at Python index i is _systems[i + 1].
_systems == <<0, 1, 2>>
\* Objects a caller may pass to constrain(); object 3 was never appended.
SystemObjects == {0, 1, 2, 3}
SystemIdx == 0 .. (Len(_systems) - 1)
\* position_collection has shape (3, n_nodes), director_collection
\* (3, 3, n_elems); the last axis is the one instantiate indexes.
NodeIdx == 0 .. 1
ElemIdx == 0 .. 0
\* how far a write from outside moves the entries of a live array
Displacements == {10}
\* simulated times the driver dispatches at
Times == {0, 1}
\* ring_rod_flag of an object: the attribute is absent, or present with a value
RingFlags == {"absent", "False", "True"}
\* the collections the model starts from: the ring_rod_flag of objects 0, 1, 2
RingSetups ==
  { <<"absent", "absent", "absent">>, <<"True", "absent", "absent">>,
    <<"absent", "False", "True">>, <<"False", "absent", "True">>,
    <<"True", "True", "True">> }

\* --------------------------------------------------- behaviour classes
\* The classes handed to using().  For each: whether it derives from
\* ConstraintBase, and how many positional arguments its constructor takes
\* (-1: any number).
PeriodicCls == "_ConstrainPeriodicBoundaries"
Classes ==
  {"OneEndFixedBC", "GeneralConstraint", "IndexingBC", PeriodicCls, "EndpointForces"}
IsConstraintBase(cls) ==
  cls \in {"OneEndFixedBC", "GeneralConstraint", "IndexingBC", PeriodicCls}
Arity(cls) ==
  CASE cls = "OneEndFixedBC" -> 2
    [] cls = PeriodicCls -> 0
    [] OTHER -> 0 - 1

\* ----------------------------------------------------- Python attributes
\* An attribute of an object is the empty tuple while it was never
\* assigned (hasattr is False) and <<v>> once it holds v.
Unset == <<>>
Set(v) == <<v>>
HasAttr(a) == Len(a) = 1
Get(a) == a[1]

\* A ConstrainingIndex: None, or a tuple of integers.
NoneIdx == [is_none |-> TRUE, items |-> <<>>]
Tuple(items) == [is_none |-> FALSE, items |-> items]
\* Python truth value of a ConstrainingIndex: None and () are false.
Truthy(ci) == ~ci.is_none /\ Len(ci.items) > 0

VARIABLES
  _constraints_list,          \* the staging list of builders
  has_constraints_operators,  \* whether self._constraints_operators exists
  _constraints_operators,     \* the operator list: (sys_id, operator) pairs
  _finalize_flag,             \* the collection was finalized
  ring_rod_flag,              \* per registered object: its ring_rod_flag attribute
  position_collection,        \* per system: the live position array (last axis)
  director_collection,        \* per system: the live director array (last axis)
  n_writes,                   \* writes made so far to the live arrays
  n_using,                    \* using(...) calls made so far by the user
  last_call,                  \* the handler that ran last, with its arguments
  raised,                     \* the exception it raised, "none" if it returned
  calls                       \* operator methods it invoked, in order

vars == <<_constraints_list, has_constraints_operators, _constraints_operators,
          _finalize_flag, ring_rod_flag, position_collection,
          director_collection, n_writes, n_using, last_call, raised, calls>>

\* ------------------------------------------------------ the live arrays
\* numpy: arr[..., idx] for an integer idx is in range when -n <= idx < n,
\* and a negative idx counts from the end.
InRange(idx, n) == 0 - n <= idx /\ idx < n
Resolve(idx, n) == IF idx < 0 THEN idx + n ELSE idx
Extent(kind) == IF kind = "position" THEN Cardinality(NodeIdx) ELSE Cardinality(ElemIdx)
Live(kind, sys, i) ==
  IF kind = "position" THEN position_collection[sys][i] ELSE director_collection[sys][i]

\* the arrays of a system when it is appended to the collection
InitialArray(kind, i) == IF kind = "position" THEN i ELSE 0
\* arr[..., idx]: a view of the live array (it keeps following the array).
View(kind, sys, idx) ==
  [kind |-> kind, view |-> TRUE, sys |-> sys,
   idx |-> Resolve(idx, Extent(kind)), val |-> Live(kind, sys, Resolve(idx, Extent(kind)))]
\* a view that was not copied
CopyAliased(v) == v
\* .copy(): an independent array holding the values the view shows now.
Copy(v) == [v EXCEPT !.view = FALSE]
\* what an argument shows when it is read
HeldValue(a) == IF a.view THEN Live(a.kind, a.sys, a.idx) ELSE a.val
\* a free-form positional argument
PlainArg(v) == [kind |-> "arg", view |-> FALSE, sys |-> 0, idx |-> 0, val |-> v]

\* ------------------------------------------------------------ the registry
\* _get_sys_idx_if_valid: the index of a registered object, an error for
\* an object that was never appended.
_get_sys_idx_if_valid(system) ==
  IF \E i \in SystemIdx : _systems[i + 1] = system
  THEN [raised |-> "none", sys_idx |-> CHOOSE i \in SystemIdx : _systems[i + 1] = system]
  ELSE [raised |-> "UnregisteredSystemError", sys_idx |-> 0]

\* blocks(): the objects finalize looks at for a ring_rod_flag attribute.
blocks == _systems
\* a test of the value of the flag
RingRodFlagIsTrue(block) == ring_rod_flag[block] = "True"
\* hasattr(block, "ring_rod_flag")
HasRingRodFlag(block) == ring_rod_flag[block] # "absent"

\* ------------------------------------------------------------ _Constraint
\* _Constraint.__init__: only _sys_idx is assigned.
_Constraint(sys_idx) ==
  [_sys_idx |-> sys_idx, _bc_cls |-> Unset, constrained_position_idx |-> Unset,
   constrained_director_idx |-> Unset, _args |-> Unset, _kwargs |-> Unset]

\* copies that hold the values the arrays had when the system was made
SnapshotsOfInitialArray(kind, system, ci) ==
  IF Truthy(ci)
  THEN [k \in 1 .. Len(ci.items) |->
          [Copy(View(kind, system, ci.items[k]))
             EXCEPT !.val = InitialArray(kind, Resolve(ci.items[k], Extent(kind)))]]
  ELSE <<>>
\* the list of copies instantiate takes for one index set
Snapshots(kind, system, ci) ==
  IF Truthy(ci)
  THEN [k \in 1 .. Len(ci.items) |-> Copy(View(kind, system, ci.items[k]))]
  ELSE <<>>
\* whether taking them raises IndexError
SnapshotsRaise(kind, ci) ==
  Truthy(ci) /\ \E k \in 1 .. Len(ci.items) : ~InRange(ci.items[k], Extent(kind))

\* using() that keeps an index set of an earlier call when the call gives none
usingKeepsIndexSets(b, cls, args, cpi, cdi, kwargs) ==
  IF ~IsConstraintBase(cls)
  THEN [raised |-> "AssertionError", b |-> b]
  ELSE [raised |-> "none",
        b |-> [b EXCEPT !._bc_cls = Set(cls),
                        !.constrained_position_idx =
                          IF cpi.is_none /\ HasAttr(@) THEN @ ELSE Set(cpi),
                        !.constrained_director_idx =
                          IF cdi.is_none /\ HasAttr(@) THEN @ ELSE Set(cdi),
                        !._args = Set(args), !._kwargs = Set(kwargs)]]
\* using() that checks the indices against the arrays
usingValidatesIndices(b, cls, args, cpi, cdi, kwargs) ==
  IF ~IsConstraintBase(cls)
  THEN [raised |-> "AssertionError", b |-> b]
  ELSE IF SnapshotsRaise("position", cpi) \/ SnapshotsRaise("director", cdi)
  THEN [raised |-> "IndexError", b |-> b]
  ELSE [raised |-> "none",
        b |-> [b EXCEPT !._bc_cls = Set(cls),
                        !.constrained_position_idx = Set(cpi),
                        !.constrained_director_idx = Set(cdi),
                        !._args = Set(args), !._kwargs = Set(kwargs)]]
\* using() that stores the class before it checks it
usingStoresFirst(b, cls, args, cpi, cdi, kwargs) ==
  IF ~IsConstraintBase(cls)
  THEN [raised |-> "AssertionError", b |-> [b EXCEPT !._bc_cls = Set(cls)]]
  ELSE [raised |-> "none",
        b |-> [b EXCEPT !._bc_cls = Set(cls),
                        !.constrained_position_idx = Set(cpi),
                        !.constrained_director_idx = Set(cdi),
                        !._args = Set(args), !._kwargs = Set(kwargs)]]
\* _Constraint.using: the subclass assertion, then the five assignments.
using(b, cls, args, cpi, cdi, kwargs) ==
  IF ~IsConstraintBase(cls)
  THEN [raised |-> "AssertionError", b |-> b]
  ELSE [raised |-> "none",
        b |-> [b EXCEPT !._bc_cls = Set(cls),
                        !.constrained_position_idx = Set(cpi),
                        !.constrained_director_idx = Set(cdi),
                        !._args = Set(args), !._kwargs = Set(kwargs)]]

\* self._bc_cls(*positions, *directors, *self._args, _system=system, **self._kwargs);
\* oid is the identity of the object it makes.
\* What the constructor itself raises: TypeError when the positional
\* arguments do not fit a fixed signature; IndexingBC reads its first
\* positional argument and raises IndexError when there is none.
ConstructorRaises(cls, posargs) ==
  IF Arity(cls) >= 0 /\ Arity(cls) # Len(posargs) THEN "TypeError"
  ELSE IF cls = "IndexingBC" /\ Len(posargs) = 0 THEN "IndexError"
  ELSE "none"
\* a handler that catches TypeError alone
ConstructCatchingTypeError(cls, posargs, system, kwargs, oid) ==
  IF ConstructorRaises(cls, posargs) # "none"
  THEN [raised |-> ConstructorRaises(cls, posargs)]
  ELSE [raised |-> "none",
        bc |-> [cls |-> cls, args |-> posargs, _system |-> system,
                kwargs |-> kwargs, oid |-> oid]]
\* the try block of instantiate: a TypeError or IndexError of the
\* constructor is raised again as the TypeError with the diagnostic
Construct(cls, posargs, system, kwargs, oid) ==
  IF ConstructorRaises(cls, posargs) \in {"TypeError", "IndexError"}
  THEN [raised |-> "TypeError"]
  ELSE [raised |-> "none",
        bc |-> [cls |-> cls, args |-> posargs, _system |-> system,
                kwargs |-> kwargs, oid |-> oid]]

\* instantiate that hands the directors over before the positions
instantiateDirectorsFirst(b, system, oid) ==
  IF ~HasAttr(b._bc_cls) THEN [raised |-> "RuntimeError"]
  ELSE IF ~HasAttr(b.constrained_position_idx) THEN [raised |-> "AttributeError"]
  ELSE IF SnapshotsRaise("position", Get(b.constrained_position_idx))
          \/ SnapshotsRaise("director", Get(b.constrained_director_idx))
  THEN [raised |-> "IndexError"]
  ELSE LET positions == Snapshots("position", system, Get(b.constrained_position_idx))
           directors == Snapshots("director", system, Get(b.constrained_director_idx))
           free == [k \in 1 .. Len(Get(b._args)) |-> PlainArg(Get(b._args)[k])]
       IN Construct(Get(b._bc_cls), directors \o positions \o free, system,
                    Get(b._kwargs), oid)
\* _Constraint.instantiate
instantiate(b, system, oid) ==
  IF ~HasAttr(b._bc_cls) THEN [raised |-> "RuntimeError"]
  ELSE IF ~HasAttr(b.constrained_position_idx) THEN [raised |-> "AttributeError"]
  ELSE IF SnapshotsRaise("position", Get(b.constrained_position_idx))
          \/ SnapshotsRaise("director", Get(b.constrained_director_idx))
  THEN [raised |-> "IndexError"]
  ELSE LET positions == Snapshots("position", system, Get(b.constrained_position_idx))
           directors == Snapshots("director", system, Get(b.constrained_director_idx))
           free == [k \in 1 .. Len(Get(b._args)) |-> PlainArg(Get(b._args)[k])]
       IN Construct(Get(b._bc_cls), positions \o directors \o free, system,
                    Get(b._kwargs), oid)

\* ------------------------------------------------------------ Constraints
\* constrain() that stages the builder before the index is validated
constrainStagesFirst(list, system) ==
  LET r == _get_sys_idx_if_valid(system)
  IN [raised |-> r.raised, list |-> Append(list, _Constraint(r.sys_idx))]
\* Constraints.constrain on the staging list: the returned builder is the
\* last element of the new list.
constrain(list, system) ==
  LET r == _get_sys_idx_if_valid(system)
  IN IF r.raised # "none"
     THEN [raised |-> r.raised, list |-> list]
     ELSE [raised |-> "none", list |-> Append(list, _Constraint(r.sys_idx))]

\* the blocks loop putting each synchronizer builder in front of the list
RECURSIVE InjectPeriodicFirst(_, _)
InjectPeriodicFirst(list, i) ==
  IF i > Len(blocks) THEN list
  ELSE IF HasRingRodFlag(blocks[i])
  THEN LET memory_block_idx == _get_sys_idx_if_valid(blocks[i]).sys_idx
           u == using(_Constraint(memory_block_idx), PeriodicCls, <<>>, NoneIdx, NoneIdx, {})
       IN InjectPeriodicFirst(<<u.b>> \o list, i + 1)
  ELSE InjectPeriodicFirst(list, i + 1)
\* the loop over blocks() of _finalize_constraints, from block i on
RECURSIVE InjectPeriodic(_, _)
InjectPeriodic(list, i) ==
  IF i > Len(blocks) THEN list
  ELSE IF HasRingRodFlag(blocks[i])
  THEN LET memory_block_idx == _get_sys_idx_if_valid(blocks[i]).sys_idx
           c == constrain(list, _systems[memory_block_idx + 1])
           k == Len(c.list)
           u == using(c.list[k], PeriodicCls, <<>>, NoneIdx, NoneIdx, {})
       IN InjectPeriodic([c.list EXCEPT ![k] = u.b], i + 1)
  ELSE InjectPeriodic(list, i + 1)

\* a comprehension that leaves out the builders using() was never called on
RECURSIVE BuildOperatorsSkipping(_, _, _)
BuildOperatorsSkipping(list, k, acc) ==
  IF k > Len(list) THEN [raised |-> "none", ops |-> acc]
  ELSE IF ~HasAttr(list[k]._bc_cls) THEN BuildOperatorsSkipping(list, k + 1, acc)
  ELSE LET r == instantiate(list[k], _systems[list[k]._sys_idx + 1], k)
       IN IF r.raised # "none"
          THEN [raised |-> r.raised, ops |-> <<>>]
          ELSE BuildOperatorsSkipping(list, k + 1,
                                      Append(acc, <<list[k]._sys_idx, r.bc>>))
\* a comprehension that makes one operator per system, for the first
\* builder staged for it
RECURSIVE BuildOperatorsOnePerSystem(_, _, _)
BuildOperatorsOnePerSystem(list, k, acc) ==
  IF k > Len(list) THEN [raised |-> "none", ops |-> acc]
  ELSE IF \E j \in 1 .. Len(acc) : acc[j][1] = list[k]._sys_idx
  THEN BuildOperatorsOnePerSystem(list, k + 1, acc)
  ELSE LET r == instantiate(list[k], _systems[list[k]._sys_idx + 1], k)
       IN IF r.raised # "none"
          THEN [raised |-> r.raised, ops |-> <<>>]
          ELSE BuildOperatorsOnePerSystem(list, k + 1,
                                          Append(acc, <<list[k]._sys_idx, r.bc>>))
\* the operators made before the first builder whose instantiate raises
RECURSIVE BuiltBeforeFailure(_, _, _)
BuiltBeforeFailure(list, k, acc) ==
  IF k > Len(list) THEN acc
  ELSE LET r == instantiate(list[k], _systems[list[k]._sys_idx + 1], k)
       IN IF r.raised # "none" THEN acc
          ELSE BuiltBeforeFailure(list, k + 1, Append(acc, <<list[k]._sys_idx, r.bc>>))
\* the list comprehension of _finalize_constraints, from builder k on: the
\* first builder whose instantiate raises ends it, and nothing is assigned.
RECURSIVE BuildOperators(_, _, _)
BuildOperators(list, k, acc) ==
  IF k > Len(list) THEN [raised |-> "none", ops |-> acc]
  ELSE LET r == instantiate(list[k], _systems[list[k]._sys_idx + 1], k)
       IN IF r.raised # "none"
          THEN [raised |-> r.raised, ops |-> <<>>]
          ELSE BuildOperators(list, k + 1, Append(acc, <<list[k]._sys_idx, r.bc>>))

\* insertion that puts x before the entries whose key equals its own
InsertBeforeEqual(x, s) ==
  LET n == Cardinality({j \in 1 .. Len(s) : s[j][1] < x[1]})
  IN SubSeq(s, 1, n) \o <<x>> \o SubSeq(s, n + 1, Len(s))
\* insert x into the sorted s behind every entry whose key is not larger
InsertSorted(x, s) ==
  LET n == Cardinality({j \in 1 .. Len(s) : s[j][1] <= x[1]})
  IN SubSeq(s, 1, n) \o <<x>> \o SubSeq(s, n + 1, Len(s))
\* list.sort(key=lambda x: x[0]): a stable sort on the system index
RECURSIVE SortPrefix(_, _)
SortPrefix(ops, n) ==
  IF n = 0 THEN <<>> ELSE InsertSorted(ops[n], SortPrefix(ops, n - 1))
SortOperators(ops) == SortPrefix(ops, Len(ops))

\* one pass of a dispatch loop: the invocations it makes, in order
Invocations(method, ops, time) ==
  [k \in 1 .. Len(ops) |->
     [method |-> method, oid |-> ops[k][2].oid,
      system |-> _systems[ops[k][1] + 1], time |-> time]]
\* a loop that walks the list from its end
_constrain_valuesReversed(ops, time) ==
  [k \in 1 .. Len(ops) |->
     Invocations("constrain_values", ops, time)[Len(ops) + 1 - k]]
\* Constraints._constrain_values / _constrain_rates
_constrain_values(ops, time) == Invocations("constrain_values", ops, time)
_constrain_rates(ops, time) == Invocations("constrain_rates", ops, time)

\* the live arrays of all systems, by kind
Arrays == [position |-> position_collection, director |-> director_collection]
\* What an operator's constrain_values writes to the system it is handed,
\* in order: a fixed end puts the position and the director it was
\* constructed with back at index 0; a general constraint puts every
\* snapshot back at the index it was taken from; the other operators write
\* none of the entries kept here.
OperatorWrites(bc) ==
  IF bc.cls = "OneEndFixedBC"
  THEN <<[kind |-> "position", idx |-> 0, arg |-> bc.args[1]],
         [kind |-> "director", idx |-> 0, arg |-> bc.args[2]]>>
  ELSE IF bc.cls = "GeneralConstraint"
  THEN LET held == SelectSeq(bc.args, LAMBDA a : a.kind \in {"position", "director"})
       IN [m \in 1 .. Len(held) |->
             [kind |-> held[m].kind, idx |-> held[m].idx, arg |-> held[m]]]
  ELSE <<>>
\* the arrays after the writes ws to system, made one after the other
RECURSIVE WriteAll(_, _, _)
WriteAll(arrs, system, ws) ==
  IF ws = <<>> THEN arrs
  ELSE LET w == Head(ws)
           val == IF w.arg.view THEN arrs[w.arg.kind][w.arg.sys][w.arg.idx]
                  ELSE w.arg.val
       IN WriteAll([arrs EXCEPT ![w.kind][system][w.idx] = val], system, Tail(ws))
\* constraint.constrain_values(system, time) and constraint.constrain_rates(
\* system, time): the rates live in arrays that are not kept here
constrain_values(bc, system, arrs) == WriteAll(arrs, system, OperatorWrites(bc))
constrain_rates(bc, system, arrs) == arrs
\* the arrays after one pass of a dispatch loop over ops, from operator k on
RECURSIVE AfterPass(_, _, _, _)
AfterPass(method, ops, k, arrs) ==
  IF k > Len(ops) THEN arrs
  ELSE LET system == _systems[ops[k][1] + 1]
       IN AfterPass(method, ops, k + 1,
                    IF method = "constrain_values"
                    THEN constrain_values(ops[k][2], system, arrs)
                    ELSE constrain_rates(ops[k][2], system, arrs))
\* the arrays after the two passes that end _finalize_constraints
AfterApplyAtTimeZero(ops, arrs) ==
  AfterPass("constrain_rates", ops, 1, AfterPass("constrain_values", ops, 1, arrs))

\* the two calls in the other order
ApplyRatesFirst(ops) == _constrain_rates(ops, 0) \o _constrain_values(ops, 0)
\* the two calls that end _finalize_constraints, at time 0.0
ApplyAtTimeZero(ops) == _constrain_values(ops, 0) \o _constrain_rates(ops, 0)

\* ------------------------------------------------------------- the inputs
\* The using(...) calls the model makes: the example's call, a constructor
\* that takes any arguments given two positions (the last node first), a
\* director, a free argument and a keyword, an empty index set, a class
\* whose signature the arguments do not fit, an index past the array, a
\* class whose constructor fails with IndexError, and a class that is no
\* boundary condition.
UsingInputs ==
  { [cls |-> "OneEndFixedBC", args |-> <<>>, cpi |-> Tuple(<<0>>),
     cdi |-> Tuple(<<0>>), kwargs |-> {}],
    [cls |-> "GeneralConstraint", args |-> <<5>>, cpi |-> Tuple(<<0 - 1, 0>>),
     cdi |-> Tuple(<<0>>), kwargs |-> {"k"}],
    [cls |-> "GeneralConstraint", args |-> <<>>, cpi |-> Tuple(<<>>),
     cdi |-> NoneIdx, kwargs |-> {}],
    [cls |-> "OneEndFixedBC", args |-> <<>>, cpi |-> NoneIdx,
     cdi |-> NoneIdx, kwargs |-> {}],
    [cls |-> "OneEndFixedBC", args |-> <<>>, cpi |-> Tuple(<<2>>),
     cdi |-> Tuple(<<0>>), kwargs |-> {}],
    [cls |-> "IndexingBC", args |-> <<>>, cpi |-> NoneIdx,
     cdi |-> NoneIdx, kwargs |-> {}],
    [cls |-> "EndpointForces", args |-> <<>>, cpi |-> NoneIdx,
     cdi |-> NoneIdx, kwargs |-> {}] }

\* what last_call records of a call: the handler, and the system, the class
\* or the time it was given (0 and "" where it takes none); again tells
\* of a using() that the builder it was called on was configured before
Call(op, system, cls, time) ==
  [op |-> op, system |-> system, cls |-> cls, time |-> time, again |-> FALSE]
UsingCall(cls, again) == [Call("using", 0, cls, 0) EXCEPT !.again = again]

\* ------------------------------------------------------------------ Init
Init ==
  /\ _constraints_list = <<>>
  /\ has_constraints_operators = FALSE
  /\ _constraints_operators = <<>>
  /\ _finalize_flag = FALSE
  /\ \E setup \in RingSetups : ring_rod_flag = [o \in SystemIdx |-> setup[o + 1]]
  /\ position_collection = [s \in SystemIdx |-> [i \in NodeIdx |-> InitialArray("position", i)]]
  /\ director_collection = [s \in SystemIdx |-> [i \in ElemIdx |-> InitialArray("director", i)]]
  /\ n_writes = 0
  /\ n_using = 0
  /\ last_call = Call("init", 0, "", 0)
  /\ raised = "none"
  /\ calls = <<>>

\* --------------------------------------------------------------- actions
\* simulator.constrain(system), called by the user
Constrain(system) ==
  /\ Len(_constraints_list) < MaxBuilders
  /\ LET r == constrain(_constraints_list, system)
     IN /\ _constraints_list' = r.list
        /\ raised' = r.raised
  /\ last_call' = Call("constrain", system, "", 0)
  /\ calls' = <<>>
  /\ UNCHANGED <<has_constraints_operators, _constraints_operators, _finalize_flag,
                 ring_rod_flag, position_collection, director_collection, n_writes,
                 n_using>>

\* builder.using(...), called by the user on the k-th staged builder, before
\* or after finalize: using() does not look at the state of the collection.
Using(k, in) ==
  /\ k \in 1 .. Len(_constraints_list)
  /\ n_using < MaxUsing
  /\ n_using' = n_using + 1
  /\ LET r == using(_constraints_list[k], in.cls, in.args, in.cpi, in.cdi, in.kwargs)
     IN /\ _constraints_list' = [_constraints_list EXCEPT ![k] = r.b]
        /\ raised' = r.raised
  /\ last_call' = UsingCall(in.cls, HasAttr(_constraints_list[k]._bc_cls))
  /\ calls' = <<>>
  /\ UNCHANGED <<has_constraints_operators, _constraints_operators, _finalize_flag,
                 ring_rod_flag, position_collection, director_collection, n_writes>>

\* _finalize_constraints that appends to self._constraints_operators one
\* operator at a time, so that a failure leaves the operators made so far
_finalize_constraintsAppending ==
  LET staged == InjectPeriodic(_constraints_list, 1)
      built == BuildOperators(staged, 1, <<>>)
      sorted == SortOperators(built.ops)
  IN /\ _constraints_list' = staged
     /\ raised' = built.raised
     /\ has_constraints_operators' = TRUE
     /\ IF built.raised = "none"
        THEN /\ _constraints_operators' = sorted
             /\ calls' = ApplyAtTimeZero(sorted)
             /\ position_collection' = AfterApplyAtTimeZero(sorted, Arrays).position
             /\ director_collection' = AfterApplyAtTimeZero(sorted, Arrays).director
        ELSE /\ _constraints_operators' = BuiltBeforeFailure(staged, 1, <<>>)
             /\ calls' = <<>>
             /\ UNCHANGED <<position_collection, director_collection>>
\* Constraints._finalize_constraints: inject the periodic builders,
\* instantiate every builder, sort, apply once at time 0.0.
_finalize_constraints ==
  LET staged == InjectPeriodic(_constraints_list, 1)
      built == BuildOperators(staged, 1, <<>>)
      sorted == SortOperators(built.ops)
  IN /\ _constraints_list' = staged
     /\ raised' = built.raised
     /\ IF built.raised = "none"
        THEN /\ has_constraints_operators' = TRUE
             /\ _constraints_operators' = sorted
             /\ calls' = ApplyAtTimeZero(sorted)
             /\ position_collection' = AfterApplyAtTimeZero(sorted, Arrays).position
             /\ director_collection' = AfterApplyAtTimeZero(sorted, Arrays).director
        ELSE /\ UNCHANGED <<has_constraints_operators, _constraints_operators,
                            position_collection, director_collection>>
             /\ calls' = <<>>

\* finalize() that does not look at the flag
finalizeAgain ==
  /\ _finalize_flag' = TRUE
  /\ _finalize_constraints
  /\ last_call' = Call("finalize", 0, "", 0)
  /\ UNCHANGED <<ring_rod_flag, n_writes, n_using>>
\* simulator.finalize(): the one-shot transition of the collection, which
\* runs the constraint module's finalize hook.
finalize ==
  /\ IF _finalize_flag
     THEN /\ raised' = "SealedStateViolationError"
          /\ calls' = <<>>
          /\ UNCHANGED <<_constraints_list, has_constraints_operators,
                         _constraints_operators, _finalize_flag,
                         position_collection, director_collection>>
     ELSE /\ _finalize_flag' = TRUE
          /\ _finalize_constraints
  /\ last_call' = Call("finalize", 0, "", 0)
  /\ UNCHANGED <<ring_rod_flag, n_writes, n_using>>

\* a dispatch that takes a list that was never built for an empty one
DispatchOverMissingList(method, time) ==
  /\ raised' = "none"
  /\ calls' = IF ~has_constraints_operators THEN <<>>
              ELSE IF method = "constrain_values"
              THEN _constrain_values(_constraints_operators, time)
              ELSE _constrain_rates(_constraints_operators, time)
  /\ IF has_constraints_operators
     THEN /\ position_collection' =
               AfterPass(method, _constraints_operators, 1, Arrays).position
          /\ director_collection' =
               AfterPass(method, _constraints_operators, 1, Arrays).director
     ELSE UNCHANGED <<position_collection, director_collection>>
  /\ last_call' = Call(method, 0, "", time)
  /\ UNCHANGED <<_constraints_list, has_constraints_operators, _constraints_operators,
                 _finalize_flag, ring_rod_flag, n_writes, n_using>>
\* a dispatch by the time-integration driver: every operator is handed
\* its system and writes it; reading the operator list before it exists
\* raises AttributeError
Dispatch(method, time) ==
  /\ IF has_constraints_operators
     THEN /\ raised' = "none"
          /\ calls' = IF method = "constrain_values"
                      THEN _constrain_values(_constraints_operators, time)
                      ELSE _constrain_rates(_constraints_operators, time)
          /\ position_collection' =
               AfterPass(method, _constraints_operators, 1, Arrays).position
          /\ director_collection' =
               AfterPass(method, _constraints_operators, 1, Arrays).director
     ELSE /\ raised' = "AttributeError"
          /\ calls' = <<>>
          /\ UNCHANGED <<position_collection, director_collection>>
  /\ last_call' = Call(method, 0, "", time)
  /\ UNCHANGED <<_constraints_list, has_constraints_operators, _constraints_operators,
                 _finalize_flag, ring_rod_flag, n_writes, n_using>>

\* a write to a system's live arrays from outside the module (the user's
\* setup code before finalize, the time stepper after it): every entry of
\* one array of one system moves by d
WriteState(kind, sys, d) ==
  /\ n_writes < MaxWrites
  /\ n_writes' = n_writes + 1
  /\ IF kind = "position"
     THEN /\ position_collection' =
               [position_collection EXCEPT ![sys] = [i \in NodeIdx |-> @[i] + d]]
          /\ UNCHANGED director_collection
     ELSE /\ director_collection' =
               [director_collection EXCEPT ![sys] = [i \in ElemIdx |-> @[i] + d]]
          /\ UNCHANGED position_collection
  /\ last_call' = Call("write", 0, "", 0)
  /\ raised' = "none"
  /\ calls' = <<>>
  /\ UNCHANGED <<_constraints_list, has_constraints_operators, _constraints_operators,
                 _finalize_flag, ring_rod_flag, n_using>>

Next ==
  \/ \E system \in SystemObjects : Constrain(system)
  \/ \E k \in 1 .. MaxBuilders + Len(_systems), in \in UsingInputs : Using(k, in)
  \/ finalize
  \/ \E method \in {"constrain_values", "constrain_rates"}, time \in Times :
       Dispatch(method, time)
  \/ \E kind \in {"position", "director"}, sys \in SystemIdx, d \in Displacements :
       WriteState(kind, sys, d)

Spec == Init /\ [][Next]_vars

\* ---------------------------------------------------------------- claims
\* the system indices of the operator list, in list order
OperatorKeys == [k \in 1 .. Len(_constraints_operators) |-> _constraints_operators[k][1]]
\* the staged builders using() was never called on
Unconfigured == {k \in 1 .. Len(_constraints_list) : ~HasAttr(_constraints_list[k]._bc_cls)}
\* the last call was the finalize that ran the constraint module's hook
FirstFinalize == last_call.op = "finalize" /\ raised # "SealedStateViolationError"

\* C1: after finalize the operator list is sorted ascending by system
\* index, and operators of the same system are in the order their
\* builders were staged (an operator's oid is its builder's place in the
\* staging list).
C1_SortedStable ==
  has_constraints_operators =>
    \A i, j \in 1 .. Len(_constraints_operators) :
      i < j =>
        \/ _constraints_operators[i][1] < _constraints_operators[j][1]
        \/ /\ _constraints_operators[i][1] = _constraints_operators[j][1]
           /\ _constraints_operators[i][2].oid < _constraints_operators[j][2].oid
\* system 2 was constrained, then system 0; the list is [0, 2]
C1_Witness ==
  /\ has_constraints_operators
  /\ OperatorKeys = <<0, 2>>
  /\ _constraints_list[1]._sys_idx = 2
  /\ _constraints_list[2]._sys_idx = 0

\* C2: a finalize after a successful finalize raises the sealed-state
\* error and leaves the staging list and the operator list as they were,
\* invoking no operator.
C2_SecondFinalizeFails ==
  [][(has_constraints_operators /\ last_call'.op = "finalize") =>
       /\ raised' = "SealedStateViolationError"
       /\ calls' = <<>>
       /\ UNCHANGED <<_constraints_list, has_constraints_operators,
                      _constraints_operators>>]_vars
C2_Witness ==
  /\ last_call.op = "finalize"
  /\ raised = "SealedStateViolationError"
  /\ has_constraints_operators
  /\ \E k \in 1 .. Len(_constraints_operators) :
       _constraints_operators[k][2].cls = PeriodicCls

\* C3: constrain(system) after finalize has completed raises the
\* sealed-state error and stages no builder.
C3_ConstrainAfterFinalizeFails ==
  [][(has_constraints_operators /\ last_call'.op = "constrain") =>
       /\ raised' = "SealedStateViolationError"
       /\ _constraints_list' = _constraints_list]_vars

\* C4 as stated: when a staged builder never had using() called on it,
\* finalize fails with the error raised at that builder (the RuntimeError
\* of instantiate) and publishes no operator.
C4_FailsAtUnconfigured ==
  (FirstFinalize /\ Unconfigured # {}) =>
    raised = "RuntimeError" /\ ~has_constraints_operators
\* C4, amended: when a staged builder never had using() called on it,
\* finalize fails and publishes no operator list; the error is the
\* RuntimeError raised at the first such builder, unless a builder staged
\* before it fails to instantiate first (TypeError or IndexError).
C4_UnconfiguredFailsFinalize ==
  (FirstFinalize /\ Unconfigured # {}) =>
    LET first == CHOOSE k \in Unconfigured : \A m \in Unconfigured : k <= m
    IN /\ ~has_constraints_operators
       /\ calls = <<>>
       /\ \/ raised = "RuntimeError"
          \/ first > 1 /\ raised \in {"TypeError", "IndexError"}
C4_Witness ==
  /\ FirstFinalize
  /\ raised = "RuntimeError"
  /\ ~has_constraints_operators
  /\ Len(_constraints_list) >= 2
  /\ Unconfigured = {2}

\* C5: after finalize the operator list holds exactly one periodic
\* boundary synchronizer for every system that is a ring and none for a
\* system that is not.
C5_OneSynchronizerPerRing ==
  has_constraints_operators =>
    \A s \in SystemIdx :
      Cardinality({k \in 1 .. Len(_constraints_operators) :
                     /\ _constraints_operators[k][1] = s
                     /\ _constraints_operators[k][2].cls = PeriodicCls})
        = IF ring_rod_flag[_systems[s + 1]] = "True" THEN 1 ELSE 0

\* C6: a finalize that succeeds has invoked constrain_values once on
\* every operator, in list order, at time 0, and after all of them
\* constrain_rates once on every operator at time 0; no operator method
\* is invoked while the operator list does not exist.
C6_AppliedOnceAtZero ==
  /\ (last_call.op = "finalize" /\ raised = "none") =>
       LET n == Len(_constraints_operators)
       IN /\ has_constraints_operators
          /\ Len(calls) = 2 * n
          /\ \A k \in 1 .. n :
               /\ calls[k].method = "constrain_values"
               /\ calls[n + k].method = "constrain_rates"
               /\ calls[k].time = 0 /\ calls[n + k].time = 0
               /\ calls[k].oid = _constraints_operators[k][2].oid
               /\ calls[n + k].oid = _constraints_operators[k][2].oid
               /\ calls[k].system = _systems[_constraints_operators[k][1] + 1]
               /\ calls[n + k].system = _systems[_constraints_operators[k][1] + 1]
  /\ ~has_constraints_operators => calls = <<>>
C6_Witness ==
  /\ last_call.op = "finalize"
  /\ raised = "none"
  /\ Len(_constraints_operators) >= 3
  /\ Len(calls) = 2 * Len(_constraints_operators)

\* C7: no step changes the value an argument of a constructed operator
\* shows, whatever is written to the live arrays.
C7_SnapshotsKeepTheirValues ==
  [][has_constraints_operators =>
       \A k \in 1 .. Len(_constraints_operators) :
         \A m \in 1 .. Len(_constraints_operators[k][2].args) :
           HeldValue(_constraints_operators[k][2].args[m])' =
             HeldValue(_constraints_operators[k][2].args[m])]_vars
\* an operator holds a snapshot of an entry that was written since
C7_Witness ==
  /\ has_constraints_operators
  /\ last_call.op = "write"
  /\ \E k \in 1 .. Len(_constraints_operators) :
       \E m \in 1 .. Len(_constraints_operators[k][2].args) :
         LET a == _constraints_operators[k][2].args[m]
         IN /\ a.kind \in {"position", "director"}
            /\ HeldValue(a) # Live(a.kind, a.sys, a.idx)

\* C8: constrain(system) for an object that is not in the registry raises
\* at the call and leaves the staging list as it was.
C8_UnregisteredFailsAtConstrain ==
  [][(/\ last_call'.op = "constrain"
      /\ \A i \in SystemIdx : _systems[i + 1] # last_call'.system) =>
       /\ raised' = "UnregisteredSystemError"
       /\ _constraints_list' = _constraints_list]_vars
C8_Witness ==
  /\ last_call.op = "constrain"
  /\ last_call.system = 3
  /\ raised = "UnregisteredSystemError"
  /\ Len(_constraints_list) = 1

\* C9: using() with a class that does not derive from ConstraintBase
\* raises at the call and leaves every field of the builder as it was.
C9_InvalidClassLeavesBuilder ==
  [][(last_call'.op = "using" /\ ~IsConstraintBase(last_call'.cls)) =>
       /\ raised' = "AssertionError"
       /\ _constraints_list' = _constraints_list]_vars
C9_Witness ==
  /\ last_call.op = "using"
  /\ last_call.cls = "EndpointForces"
  /\ raised = "AssertionError"
  /\ Unconfigured # {}

\* C10: once the operator list exists no step changes it, and a dispatch
\* invokes its method once on every operator, in list order, with the
\* time it was given and the system registered at the operator's index.
C10_DispatchKeepsList ==
  [][has_constraints_operators =>
       /\ UNCHANGED <<has_constraints_operators, _constraints_operators>>
       /\ last_call'.op \in {"constrain_values", "constrain_rates"} =>
            /\ raised' = "none"
            /\ Len(calls') = Len(_constraints_operators)
            /\ \A k \in 1 .. Len(_constraints_operators) :
                 /\ calls'[k].method = last_call'.op
                 /\ calls'[k].time = last_call'.time
                 /\ calls'[k].oid = _constraints_operators[k][2].oid
                 /\ calls'[k].system = _systems[_constraints_operators[k][1] + 1]]_vars
C10_Witness ==
  /\ last_call.op = "constrain_values"
  /\ last_call.time = 1
  /\ raised = "none"
  /\ Len(calls) >= 3
  /\ OperatorKeys[1] < OperatorKeys[Len(OperatorKeys)]

\* what instantiate raises for the k-th staged builder
Raises(k) ==
  instantiate(_constraints_list[k], _systems[_constraints_list[k]._sys_idx + 1], k).raised
\* the staged builders that cannot be instantiated
FailingBuilders == {k \in 1 .. Len(_constraints_list) : Raises(k) # "none"}
\* the operator made from the k-th staged builder
OperatorsOf(k) ==
  {j \in 1 .. Len(_constraints_operators) : _constraints_operators[j][2].oid = k}

\* C11: when a staged builder cannot be instantiated, finalize ends with
\* the error of the first such builder, no operator list exists afterwards
\* (not even the operators made before the failure) and no operator
\* method was invoked.
C11_FailedFinalizePublishesNothing ==
  (FirstFinalize /\ FailingBuilders # {}) =>
    LET first == CHOOSE k \in FailingBuilders : \A m \in FailingBuilders : k <= m
    IN /\ raised = Raises(first)
       /\ raised # "none"
       /\ ~has_constraints_operators
       /\ _constraints_operators = <<>>
       /\ calls = <<>>
\* the second builder fails after the first was instantiated
C11_Witness ==
  /\ FirstFinalize
  /\ raised = "TypeError"
  /\ FailingBuilders = {2}
  /\ ~has_constraints_operators

\* C12: a finalize that succeeds makes exactly one operator from every
\* staged builder (also from each of several builders of one system), of
\* the class the builder holds; the entry pairs it with the builder's
\* system index, and every invocation passes the operator the system
\* registered at that index.
C12_OneOperatorPerBuilder ==
  /\ (last_call.op = "finalize" /\ raised = "none") =>
       /\ Len(_constraints_operators) = Len(_constraints_list)
       /\ \A k \in 1 .. Len(_constraints_list) :
            /\ Cardinality(OperatorsOf(k)) = 1
            /\ \A j \in OperatorsOf(k) :
                 _constraints_operators[j][2].cls = Get(_constraints_list[k]._bc_cls)
  /\ has_constraints_operators =>
       /\ \A j \in 1 .. Len(_constraints_operators) :
            LET bc == _constraints_operators[j][2]
            IN /\ bc.oid \in 1 .. Len(_constraints_list)
               /\ _constraints_operators[j][1] = _constraints_list[bc.oid]._sys_idx
       /\ \A c \in 1 .. Len(calls) :
            \E j \in 1 .. Len(_constraints_operators) :
              /\ _constraints_operators[j][2].oid = calls[c].oid
              /\ calls[c].system = _systems[_constraints_operators[j][1] + 1]
\* two builders of one system and a synchronizer: three operators
C12_Witness ==
  /\ last_call.op = "finalize"
  /\ raised = "none"
  /\ Len(_constraints_list) = 3
  /\ _constraints_list[1]._sys_idx = _constraints_list[2]._sys_idx
  /\ Len(_constraints_operators) = 3

\* C13: the constructor of an operator is given one position snapshot per
\* entry of constrained_position_idx in the given order, then one director
\* snapshot per entry of constrained_director_idx in the given order, then
\* the stored positional arguments in their order, and _system and the
\* stored keyword arguments; an index set that is None or empty gives no
\* snapshot.
C13_ArgumentOrder ==
  (last_call.op = "finalize" /\ raised = "none") =>
    \A j \in 1 .. Len(_constraints_operators) :
      LET bc == _constraints_operators[j][2]
          b == _constraints_list[bc.oid]
          cpi == Get(b.constrained_position_idx)
          cdi == Get(b.constrained_director_idx)
          np == IF cpi.is_none THEN 0 ELSE Len(cpi.items)
          nd == IF cdi.is_none THEN 0 ELSE Len(cdi.items)
          na == Len(Get(b._args))
      IN /\ Len(bc.args) = np + nd + na
         /\ \A m \in 1 .. np :
              /\ bc.args[m].kind = "position"
              /\ bc.args[m].sys = _systems[b._sys_idx + 1]
              /\ bc.args[m].idx = Resolve(cpi.items[m], Cardinality(NodeIdx))
         /\ \A m \in 1 .. nd :
              /\ bc.args[np + m].kind = "director"
              /\ bc.args[np + m].sys = _systems[b._sys_idx + 1]
              /\ bc.args[np + m].idx = Resolve(cdi.items[m], Cardinality(ElemIdx))
         /\ \A m \in 1 .. na :
              /\ bc.args[np + nd + m].kind = "arg"
              /\ bc.args[np + nd + m].val = Get(b._args)[m]
         /\ bc._system = _systems[b._sys_idx + 1]
         /\ bc.kwargs = Get(b._kwargs)
\* positions of the last and the first node, a director, a free argument
C13_Witness ==
  /\ last_call.op = "finalize"
  /\ raised = "none"
  /\ \E j \in 1 .. Len(_constraints_operators) :
       LET bc == _constraints_operators[j][2]
       IN /\ Len(bc.args) = 4
          /\ bc.args[1].kind = "position" /\ bc.args[1].idx = 1
          /\ bc.args[2].kind = "position" /\ bc.args[2].idx = 0
          /\ bc.args[3].kind = "director"
          /\ bc.args[4].kind = "arg" /\ bc.args[4].val = 5
          /\ bc.kwargs = {"k"}

\* whether the k-th staged builder holds an index outside its array
OutOfRange(k) ==
  LET b == _constraints_list[k]
  IN /\ HasAttr(b._bc_cls)
     /\ \/ SnapshotsRaise("position", Get(b.constrained_position_idx))
        \/ SnapshotsRaise("director", Get(b.constrained_director_idx))
\* the first staged builder that cannot be instantiated
FirstFailing ==
  CHOOSE k \in FailingBuilders : \A m \in FailingBuilders : k <= m

\* C14: using() accepts an index outside the system's arrays without an
\* error and stores it; the index is reported only when finalize
\* instantiates the builder: finalize then fails, with IndexError when
\* that builder is the first that fails, and publishes no operator list.
C14_OutOfRangeReportedAtFinalize ==
  /\ (last_call.op = "using" /\ IsConstraintBase(last_call.cls)) => raised = "none"
  /\ (FirstFinalize /\ \E k \in 1 .. Len(_constraints_list) : OutOfRange(k)) =>
       /\ raised # "none"
       /\ ~has_constraints_operators
       /\ OutOfRange(FirstFailing) => raised = "IndexError"
\* using() returned for an index 2 of a two-node array, finalize raised
C14_Witness ==
  /\ FirstFinalize
  /\ raised = "IndexError"
  /\ \E k \in 1 .. Len(_constraints_list) :
       /\ OutOfRange(k)
       /\ Get(_constraints_list[k].constrained_position_idx) = Tuple(<<2>>)

\* C15: the snapshots an operator is given hold the values the arrays have
\* when finalize is called, also when the arrays were written after
\* using(): every step that is a finalize building the operators gives
\* each snapshot the value its entry had in the state finalize started in.
C15_SnapshotAtFinalize ==
  [][(~_finalize_flag /\ _finalize_flag' /\ raised' = "none") =>
       \A j \in 1 .. Len(_constraints_operators') :
         LET args == _constraints_operators'[j][2].args
         IN \A m \in 1 .. Len(args) :
              args[m].kind \in {"position", "director"} =>
                /\ ~args[m].view
                /\ args[m].val = Live(args[m].kind, args[m].sys, args[m].idx)]_vars
\* a snapshot of an array that was written before finalize
C15_Witness ==
  /\ last_call.op = "finalize"
  /\ raised = "none"
  /\ n_writes > 0
  /\ \E j \in 1 .. Len(_constraints_operators) :
       LET args == _constraints_operators[j][2].args
       IN \E m \in 1 .. Len(args) :
            /\ args[m].kind \in {"position", "director"}
            /\ args[m].val # InitialArray(args[m].kind, args[m].idx)
            /\ args[m].val = Live(args[m].kind, args[m].sys, args[m].idx)

\* the positional arguments instantiate hands the constructor for the k-th
\* staged builder
PositionalArgs(k) ==
  LET b == _constraints_list[k]
      system == _systems[b._sys_idx + 1]
  IN Snapshots("position", system, Get(b.constrained_position_idx))
       \o Snapshots("director", system, Get(b.constrained_director_idx))
       \o [m \in 1 .. Len(Get(b._args)) |-> PlainArg(Get(b._args)[m])]
\* whether the constructor of the k-th staged builder rejects its arguments
ConstructorRejects(k) ==
  /\ HasAttr(_constraints_list[k]._bc_cls)
  /\ ~OutOfRange(k)
  /\ ConstructorRaises(Get(_constraints_list[k]._bc_cls), PositionalArgs(k)) # "none"

\* C16: when the constructor of the first failing builder rejects its
\* arguments, with a TypeError or with an IndexError, finalize fails with
\* TypeError; when that builder was never configured, finalize fails with
\* RuntimeError.
C16_ConstructionErrorIsTypeError ==
  (FirstFinalize /\ FailingBuilders # {}) =>
    /\ ConstructorRejects(FirstFailing) => raised = "TypeError"
    /\ ~HasAttr(_constraints_list[FirstFailing]._bc_cls) => raised = "RuntimeError"
\* a constructor that raised IndexError
C16_Witness ==
  /\ FirstFinalize
  /\ raised = "TypeError"
  /\ FailingBuilders # {}
  /\ ConstructorRejects(FirstFailing)
  /\ ConstructorRaises(Get(_constraints_list[FirstFailing]._bc_cls),
                       PositionalArgs(FirstFailing)) = "IndexError"

\* the class of the operator made from the k-th staged builder
OperatorClass(k) ==
  LET j == CHOOSE j \in OperatorsOf(k) : TRUE IN _constraints_operators[j][2].cls
\* the class the k-th staged builder was configured with ("" for none)
ClassOf(k) ==
  IF HasAttr(_constraints_list[k]._bc_cls) THEN Get(_constraints_list[k]._bc_cls) ELSE ""
\* the last call was a dispatch
Dispatched == last_call.op \in {"constrain_values", "constrain_rates"}

\* C17: finalize stages the synchronizer builders after every user
\* builder, so in the operator list no operator follows the synchronizer
\* of its system with the same system index, and in every pass of a
\* dispatch the synchronizer of a system is invoked after the other
\* operators of that system.
C17_SynchronizerLast ==
  /\ FirstFinalize =>
       \A i, j \in 1 .. Len(_constraints_list) :
         (i < j /\ ClassOf(i) = PeriodicCls) => ClassOf(j) = PeriodicCls
  /\ has_constraints_operators =>
       /\ \A i, j \in 1 .. Len(_constraints_operators) :
            (i < j /\ _constraints_operators[i][1] = _constraints_operators[j][1])
              => _constraints_operators[i][2].cls # PeriodicCls
       /\ \A c, d \in 1 .. Len(calls) :
            (c < d /\ calls[c].method = calls[d].method
                   /\ calls[c].system = calls[d].system)
              => OperatorClass(calls[c].oid) # PeriodicCls
\* a dispatch over a ring system that has a user constraint
C17_Witness ==
  /\ Dispatched
  /\ \E c, d \in 1 .. Len(calls) :
       /\ c < d
       /\ calls[c].system = calls[d].system
       /\ OperatorClass(calls[c].oid) # PeriodicCls
       /\ OperatorClass(calls[d].oid) = PeriodicCls
       /\ calls[c].oid < calls[d].oid

\* the staged synchronizer builders of system index s
SynchronizerBuilders(s) ==
  {k \in 1 .. Len(_constraints_list) :
     ClassOf(k) = PeriodicCls /\ _constraints_list[k]._sys_idx = s}

\* C18: finalize stages one synchronizer for every block that has an
\* attribute ring_rod_flag, whatever its value, bound to the registry
\* index of the block, and none for a block without the attribute; a
\* finalize that succeeds makes one operator of each.
C18_SynchronizerForFlagAttribute ==
  /\ FirstFinalize =>
       \A s \in SystemIdx :
         Cardinality(SynchronizerBuilders(s))
           = IF ring_rod_flag[_systems[s + 1]] # "absent" THEN 1 ELSE 0
  /\ (FirstFinalize /\ raised = "none") =>
       \A s \in SystemIdx :
         Cardinality({k \in 1 .. Len(_constraints_operators) :
                        /\ _constraints_operators[k][1] = s
                        /\ _constraints_operators[k][2].cls = PeriodicCls
                        /\ _constraints_operators[k][2]._system = _systems[s + 1]})
           = IF ring_rod_flag[_systems[s + 1]] # "absent" THEN 1 ELSE 0
\* a block whose ring_rod_flag is False has a synchronizer operator
C18_Witness ==
  /\ FirstFinalize
  /\ raised = "none"
  /\ \E k \in 1 .. Len(_constraints_operators) :
       /\ _constraints_operators[k][2].cls = PeriodicCls
       /\ ring_rod_flag[_systems[_constraints_operators[k][1] + 1]] = "False"

\* C19: a dispatch while the operator list does not exist, before finalize
\* or after a finalize that failed, raises AttributeError and invokes
\* nothing; an operator method is only ever invoked once finalize has
\* built the list.
C19_DispatchNeedsFinalize ==
  /\ (Dispatched /\ ~_finalize_flag) => (raised = "AttributeError" /\ calls = <<>>)
  /\ (Dispatched /\ ~has_constraints_operators)
       => (raised = "AttributeError" /\ calls = <<>>)
  /\ ~_finalize_flag => ~has_constraints_operators
  /\ calls # <<>> => (_finalize_flag /\ has_constraints_operators)
\* a dispatch after a finalize that failed
C19_Witness ==
  /\ Dispatched
  /\ _finalize_flag
  /\ ~has_constraints_operators
  /\ raised = "AttributeError"
  /\ Len(_constraints_list) > 0

\* what a builder of system index s holds after using() with input in
Configured(s, in) ==
  [_sys_idx |-> s, _bc_cls |-> Set(in.cls),
   constrained_position_idx |-> Set(in.cpi),
   constrained_director_idx |-> Set(in.cdi),
   _args |-> Set(in.args), _kwargs |-> Set(in.kwargs)]
\* the configuration finalize gives a synchronizer builder
PeriodicInput ==
  [cls |-> PeriodicCls, args |-> <<>>, cpi |-> NoneIdx, cdi |-> NoneIdx, kwargs |-> {}]

\* C20: using() on a builder that is configured already is accepted; a
\* configured builder holds the five values of one call and nothing of an
\* earlier one, the last call with a constraint class being that call; a
\* finalize that succeeds makes one operator of the builder, the one
\* instantiate makes of these values.
C20_LastUsingReplaces ==
  /\ (last_call.op = "using" /\ last_call.again /\ IsConstraintBase(last_call.cls))
       => raised = "none"
  /\ (last_call.op = "using" /\ raised = "none") =>
       \E k \in 1 .. Len(_constraints_list), in \in UsingInputs :
         in.cls = last_call.cls
           /\ _constraints_list[k] = Configured(_constraints_list[k]._sys_idx, in)
  /\ \A k \in 1 .. Len(_constraints_list) :
       HasAttr(_constraints_list[k]._bc_cls) =>
         \E in \in UsingInputs \cup {PeriodicInput} :
           _constraints_list[k] = Configured(_constraints_list[k]._sys_idx, in)
  /\ (last_call.op = "finalize" /\ raised = "none") =>
       \A k \in 1 .. Len(_constraints_list) :
         /\ Cardinality(OperatorsOf(k)) = 1
         /\ \A j \in OperatorsOf(k) :
              _constraints_operators[j][2] =
                instantiate(_constraints_list[k],
                            _systems[_constraints_list[k]._sys_idx + 1], k).bc
\* a second using() that gave a class and no director indices
C20_Witness ==
  /\ last_call.op = "using"
  /\ last_call.again
  /\ raised = "none"
  /\ last_call.cls = "GeneralConstraint"
  /\ \E k \in 1 .. Len(_constraints_list) :
       /\ ClassOf(k) = "GeneralConstraint"
       /\ Get(_constraints_list[k].constrained_director_idx) = NoneIdx

====
